---- MODULE Spec2Model ----
(***************************************************************************)
(* Model of the BLS OEWS wage pipeline (src/pipeline/bls_pipeline.py).     *)
(*                                                                         *)
(* Strings that the code builds or parses (SOC codes, MSA codes, series    *)
(* identifiers, the "year" and "value" of a data point) are sequences of   *)
(* one-character strings, so that zero padding, dash removal and numeric   *)
(* parsing are computed as the code computes them.  Python's None is the   *)
(* empty sequence <<>> and a present value v is <<v>>.  A Python dict is a *)
(* function with a finite domain (key order kept where the code iterates:  *)
(* an ordered dict is a sequence of records with distinct keys).           *)
(***************************************************************************)
EXTENDS Integers, Sequences, FiniteSets, TLC

\* ------------------------------------------------------------------------
\* Bounds of the model
\* ------------------------------------------------------------------------

\* Largest number of rows of soc_code_reference the model starts with.
MaxSoc == 2

\* ------------------------------------------------------------------------
\* Generic helpers (Python built-ins used by the code)
\* ------------------------------------------------------------------------

None == <<>>

Some(v) == <<v>>

\* dict.get(key, default)
Get(d, k, default) == IF k \in DOMAIN d THEN d[k] ELSE default

Range(s) == {s[i] : i \in DOMAIN s}

Digits == {"0", "1", "2", "3", "4", "5", "6", "7", "8", "9"}

DigitVal(c) ==
    CASE c = "0" -> 0 [] c = "1" -> 1 [] c = "2" -> 2 [] c = "3" -> 3
      [] c = "4" -> 4 [] c = "5" -> 5 [] c = "6" -> 6 [] c = "7" -> 7
      [] c = "8" -> 8 [] c = "9" -> 9

\* str.zfill(n): pad on the left with "0" up to width n (no sign in our inputs).
Zfill(s, n) ==
    IF Len(s) >= n THEN s
    ELSE [i \in 1..n |-> IF i <= n - Len(s) THEN "0" ELSE s[i - (n - Len(s))]]

\* str.replace(c, ""): drop every occurrence of the character c.
RemoveChar(s, c) == SelectSeq(s, LAMBDA x : x # c)

\* str.strip(): drop leading and trailing blanks.
RECURSIVE LStrip(_)
LStrip(s) == IF s # <<>> /\ Head(s) = " " THEN LStrip(Tail(s)) ELSE s

RECURSIVE RStrip(_)
RStrip(s) ==
    IF s # <<>> /\ s[Len(s)] = " " THEN RStrip(SubSeq(s, 1, Len(s) - 1)) ELSE s

Strip(s) == RStrip(LStrip(s))

\* The value of a string of decimal digits.
RECURSIVE DecimalValue(_)
DecimalValue(s) ==
    IF s = <<>> THEN 0
    ELSE 10 * DecimalValue(SubSeq(s, 1, Len(s) - 1)) + DigitVal(s[Len(s)])

\* int(str) on the strings the model feeds it: a non-empty string of decimal
\* digits (blanks around it ignored) converts to its value, anything else
\* raises ValueError (None here).
ParseNumber(s) ==
    LET v == Strip(s)
    IN  IF v # <<>> /\ Range(v) \subseteq Digits THEN Some(DecimalValue(v)) ELSE None

\* A Python float: a finite number, or one of the values that are no number.
Finite(n) == [kind |-> "finite", n |-> n]

NaN == [kind |-> "nan", n |-> 0]

Infinity(sign) == [kind |-> "inf", n |-> sign]

\* str.lower() on the letters float() looks for.
Lower(s) ==
    [i \in DOMAIN s |->
        CASE s[i] = "N" -> "n" [] s[i] = "A" -> "a" [] s[i] = "I" -> "i"
          [] s[i] = "F" -> "f" [] s[i] = "T" -> "t" [] s[i] = "Y" -> "y"
          [] OTHER -> s[i]]

\* float(str) on the strings the model feeds it (none has a decimal point or
\* an exponent): blanks around the text are ignored, a sign is allowed, a
\* string of decimal digits converts to its value, "nan", "inf" and
\* "infinity" in any case convert to the float of that name, anything else
\* raises ValueError (None here).
ParseFloat(s) ==
    LET v    == Strip(s)
        neg  == v # <<>> /\ Head(v) = "-"
        body == IF v # <<>> /\ Head(v) \in {"+", "-"} THEN Tail(v) ELSE v
        sign == IF neg THEN -1 ELSE 1
    IN  IF body # <<>> /\ Range(body) \subseteq Digits
        THEN Some(Finite(sign * DecimalValue(body)))
        ELSE IF Lower(body) = <<"n","a","n">> THEN Some(NaN)
        ELSE IF Lower(body) \in { <<"i","n","f">>, <<"i","n","f","i","n","i","t","y">> }
        THEN Some(Infinity(sign))
        ELSE None

\* ------------------------------------------------------------------------
\* CONSTANTS of bls_pipeline.py
\* ------------------------------------------------------------------------

\* Mutant: the batch size of a registered caller, whatever the key.
BATCH_SIZE_AlwaysFifty(regkey) == 50

\* BATCH_SIZE = 50 if BLS_REGKEY else 25
BATCH_SIZE(regkey) == IF regkey THEN 50 ELSE 25

SURVEY_YEAR == 2024

MSA_CODES ==
    << [msa_name |-> "Austin TX",        msa_code |-> <<"1","2","4","2","0">>],
       [msa_name |-> "New York NY",      msa_code |-> <<"3","5","6","2","0">>],
       [msa_name |-> "San Francisco CA", msa_code |-> <<"4","1","8","6","0">>],
       [msa_name |-> "Washington DC",    msa_code |-> <<"4","7","9","0","0">>],
       [msa_name |-> "Denver CO",        msa_code |-> <<"1","9","7","4","0">>] >>

DATA_TYPES ==
    << [dt_code |-> <<"0","3">>, col_name |-> "annual_mean"],
       [dt_code |-> <<"1","1">>, col_name |-> "pct_10"],
       [dt_code |-> <<"1","2">>, col_name |-> "pct_25"],
       [dt_code |-> <<"1","3">>, col_name |-> "pct_50"],
       [dt_code |-> <<"1","4">>, col_name |-> "pct_75"],
       [dt_code |-> <<"1","5">>, col_name |-> "pct_90"] >>

INDUSTRY_CODE == <<"0","0","0","0","0","0">>

\* ------------------------------------------------------------------------
\* STEP 2: build series ids
\* ------------------------------------------------------------------------

\* Mutant: the dash is kept, the code is not reduced to its six digits.
soc_to_digits_KeepDash(soc_code) == Zfill(soc_code, 6)

soc_to_digits(soc_code) == Zfill(RemoveChar(soc_code, "-"), 6)

msa_to_area_code(msa_code) == Zfill(msa_code, 7)

\* Mutant: only the first five SOC digits go into the identifier.
build_series_id_FiveDigits(msa_code, soc_code, data_type) ==
    <<"O","E","U","M">>
      \o msa_to_area_code(msa_code)
      \o INDUSTRY_CODE
      \o <<"0">> \o SubSeq(soc_to_digits(soc_code), 1, 5)
      \o data_type

build_series_id(msa_code, soc_code, data_type) ==
    <<"O","E","U","M">>
      \o msa_to_area_code(msa_code)
      \o INDUSTRY_CODE
      \o soc_to_digits(soc_code)
      \o data_type

\* The descriptor appended for MSA m, catalog entry s, data type d.
Descriptor(soc_map, m, s, d) ==
    [series_id |-> build_series_id(MSA_CODES[m].msa_code, soc_map[s].soc_code,
                                   DATA_TYPES[d].dt_code),
     msa_name  |-> MSA_CODES[m].msa_name,
     msa_code  |-> MSA_CODES[m].msa_code,
     soc_code  |-> soc_map[s].soc_code,
     soc_title |-> soc_map[s].soc_title,
     data_type |-> DATA_TYPES[d].dt_code,
     col_name  |-> DATA_TYPES[d].col_name]

\* for msa: for soc: for data type: append -- the flat list, MSA-major.
build_all_series(soc_map) ==
    LET nS == Len(soc_map)
        nD == Len(DATA_TYPES)
    IN  [i \in 1..(Len(MSA_CODES) * nS * nD) |->
            Descriptor(soc_map,
                       ((i - 1) \div (nS * nD)) + 1,
                       (((i - 1) \div nD) % nS) + 1,
                       ((i - 1) % nD) + 1)]

\* series_meta.get(sid): the descriptor of a series id, None when unknown.
MetaGet(all_series, sid) ==
    IF \E i \in DOMAIN all_series : all_series[i].series_id = sid
    THEN Some(all_series[CHOOSE i \in DOMAIN all_series :
                            all_series[i].series_id = sid])
    ELSE None

\* batches[n] (1-based): all_series[i : i + BATCH_SIZE] for i = (n-1)*BATCH_SIZE.
NumBatches(total, size) == (total + size - 1) \div size

\* Mutant: every slice after the first starts one element early.
BatchOverlapping(all_series, size, n) ==
    LET lo == IF n = 1 THEN 1 ELSE (n - 1) * size
        hi == IF n * size < Len(all_series) THEN n * size ELSE Len(all_series)
    IN  SubSeq(all_series, lo, hi)

Batch(all_series, size, n) ==
    LET lo == (n - 1) * size + 1
        hi == IF n * size < Len(all_series) THEN n * size ELSE Len(all_series)
    IN  SubSeq(all_series, lo, hi)

BatchIds(batch) == [i \in DOMAIN batch |-> batch[i].series_id]

\* ------------------------------------------------------------------------
\* The environment: reference table and the BLS API
\* ------------------------------------------------------------------------

\* Rows that soc_code_reference may hold, in soc_code order (four of the
\* rows seeded by seed_reference_data.py).
SocPool ==
    << [soc_code  |-> <<"1","1","-","1","0","2","1">>,
        soc_title |-> "General and Operations Managers"],
       [soc_code  |-> <<"1","3","-","1","0","7","1">>,
        soc_title |-> "Human Resources Specialists"],
       [soc_code  |-> <<"1","5","-","1","2","5","2">>,
        soc_title |-> "Software Developers"],
       [soc_code  |-> <<"1","5","-","1","2","5","3">>,
        soc_title |-> "Software Quality Assurance Analysts and Testers"] >>

\* The contents soc_code_reference may have: empty, or the first n pool rows.
Catalogs == {SubSeq(SocPool, 1, n) : n \in 0..MaxSoc}

YearTarget == <<"2","0","2","4">>
YearOther  == <<"2","0","2","3">>
YearBad    == <<"x">>

\* What the API holds for one series: no entry at all, an entry with an empty
\* data list, or an entry whose first data point is (year, value).
Outcomes ==
    { [kind |-> "missing", year |-> <<>>,        value |-> <<>>],
      [kind |-> "empty",   year |-> <<>>,        value |-> <<>>],
      [kind |-> "point",   year |-> YearTarget,  value |-> <<"1","0">>],
      [kind |-> "point",   year |-> YearTarget,  value |-> <<"-">>],
      [kind |-> "point",   year |-> YearOther,   value |-> <<"2","0">>],
      [kind |-> "point",   year |-> YearBad,     value |-> <<"1","0">>] }

Focuses == {"none", "mean"}

\* The API's data for the year: every series has outcome base, except the
\* series in the focus (the annual-mean series), which have outcome alt.
Worlds ==
    { w \in [base : Outcomes, alt : Outcomes, focus : Focuses] :
        (w.focus = "none") <=> (w.alt = w.base) }

InFocus(sid, focus) ==
    CASE focus = "none" -> FALSE
      [] focus = "mean" -> SubSeq(sid, 24, 25) = DATA_TYPES[1].dt_code

\* The position of a series of the run in MSA_CODES and in DATA_TYPES.
MsaIndexOf(sid) == CHOOSE m \in DOMAIN MSA_CODES : MSA_CODES[m].msa_code = SubSeq(sid, 7, 11)

TypeIndexOf(sid) == CHOOSE d \in DOMAIN DATA_TYPES : DATA_TYPES[d].dt_code = SubSeq(sid, 24, 25)

\* A world with focus "published" holds outcome base for the first
\* counts[m] data types of MSA m and outcome alt for its other data types.
Published(w, sid) == TypeIndexOf(sid) <= w.counts[MsaIndexOf(sid)]

OutcomeOf(w, sid) ==
    IF w.focus = "published"
    THEN (IF Published(w, sid) THEN w.base ELSE w.alt)
    ELSE (IF InFocus(sid, w.focus) THEN w.alt ELSE w.base)

\* The entry of the response's series list for one outcome.
ApiEntry(sid, o) ==
    IF o.kind = "empty"
    THEN [seriesID |-> sid, data |-> <<>>]
    ELSE [seriesID |-> sid, data |-> << [year |-> o.year, value |-> o.value] >>]

\* Results.series for a request of series_ids: one entry per id the API has.
ApiSeries(w, series_ids) ==
    LET held == SelectSeq(series_ids, LAMBDA sid : OutcomeOf(w, sid).kind # "missing")
    IN  [i \in DOMAIN held |-> ApiEntry(held[i], OutcomeOf(w, held[i]))]

\* A series id that no descriptor has (an entry the API adds on its own).
UnknownSid == <<"O","E","U","M","x">>

UnknownEntry ==
    [seriesID |-> UnknownSid,
     data     |-> << [year |-> YearTarget, value |-> <<"1","0">>] >>]

\* What one POST can come to: a transport error, a rejected HTTP status, a body
\* that is not JSON, or a JSON object (with or without its top-level keys).
NetOutcomes(w, series_ids) ==
    LET S == ApiSeries(w, series_ids)
    IN  { [kind |-> "transport", body |-> <<>>],
          [kind |-> "http",      body |-> <<>>],
          [kind |-> "notjson",   body |-> <<>>],
          [kind |-> "json", body |-> [Results |-> [series |-> S]]],
          [kind |-> "json", body |-> [status |-> "REQUEST_SUCCEEDED"]],
          [kind |-> "json", body |-> [status |-> "REQUEST_SUCCEEDED",
                                      Results |-> [series |-> S]]],
          [kind |-> "json", body |-> [status |-> "REQUEST_NOT_PROCESSED",
                                      Results |-> [series |-> S]]],
          [kind |-> "json", body |-> [status |-> "REQUEST_SUCCEEDED",
                                      Results |-> [series |-> S \o <<UnknownEntry>>]]] }

\* ------------------------------------------------------------------------
\* STEP 3: fetch one batch
\* ------------------------------------------------------------------------

\* Result of a call: it raised (msg), or it returned value.
Raised(msg) == [raised |-> TRUE, msg |-> msg, value |-> <<>>]

Returned(v) == [raised |-> FALSE, msg |-> "", value |-> v]

\* Mutant: raise_for_status() outside the try block, an HTTP error propagates.
fetch_bls_batch_HttpRaises(net) ==
    CASE net.kind = "transport" -> Returned(None)
      [] net.kind = "http" -> Raised("HTTP error")
      [] net.kind = "notjson" -> Raised("Expecting value: line 1 column 1 (char 0)")
      [] net.kind = "json" ->
            IF "status" \notin DOMAIN net.body \/ "Results" \notin DOMAIN net.body
            THEN Returned(None)
            ELSE Returned(Some(net.body))

\* Mutant: a response whose status is not REQUEST_SUCCEEDED is dropped.
fetch_bls_batch_DropsDegraded(net) ==
    CASE net.kind \in {"transport", "http"} -> Returned(None)
      [] net.kind = "notjson" -> Raised("Expecting value: line 1 column 1 (char 0)")
      [] net.kind = "json" ->
            IF "status" \notin DOMAIN net.body \/ "Results" \notin DOMAIN net.body
            THEN Returned(None)
            ELSE IF net.body.status # "REQUEST_SUCCEEDED" THEN Returned(None)
            ELSE Returned(Some(net.body))

\* fetch_bls_batch: None on a transport or HTTP error and on a JSON object
\* without "status" or "Results"; resp.json() is outside the try block.
fetch_bls_batch(net) ==
    CASE net.kind \in {"transport", "http"} -> Returned(None)
      [] net.kind = "notjson" -> Raised("Expecting value: line 1 column 1 (char 0)")
      [] net.kind = "json" ->
            IF "status" \notin DOMAIN net.body \/ "Results" \notin DOMAIN net.body
            THEN Returned(None)
            ELSE Returned(Some(net.body))

\* ------------------------------------------------------------------------
\* STEP 4: parse the response
\* ------------------------------------------------------------------------

Sentinels == { <<"-">>, <<"*","*">>, <<"N","/","A">>, <<"N","A">>, <<>> }

\* A JSON null where a string is expected (Python's None as the argument of
\* safe_wage): the one sequence here whose element is not a character.
JsonNull == <<"null">>

\* value_str.strip() raises AttributeError when the value is no string; a
\* sentinel is None; else float(v), None on ValueError.
safe_wage(value_str) ==
    IF value_str = JsonNull
    THEN Raised("'NoneType' object has no attribute 'strip'")
    ELSE LET v == Strip(value_str)
         IN  IF v \in Sentinels THEN Returned(None) ELSE Returned(ParseFloat(v))

\* The key of an aggregated record: (soc_code, msa_code, survey_year).
KeyOf(rec) == <<rec.soc_code, rec.msa_code, rec.survey_year>>

\* Index of the record with this key in an ordered dict (0 when absent).
IndexOfKey(d, key) ==
    IF \E i \in DOMAIN d : KeyOf(d[i]) = key
    THEN CHOOSE i \in DOMAIN d : KeyOf(d[i]) = key
    ELSE 0

\* Mutant: one record per occupation and year, whatever the MSA.
SetColumnPerOccupation(partial, meta, year, wage) ==
    LET i   == IF \E j \in DOMAIN partial : partial[j].soc_code = meta.soc_code
                                             /\ partial[j].survey_year = year
               THEN CHOOSE j \in DOMAIN partial : partial[j].soc_code = meta.soc_code
                                                  /\ partial[j].survey_year = year
               ELSE 0
        new == [soc_code    |-> meta.soc_code,
                soc_title   |-> meta.soc_title,
                msa_code    |-> meta.msa_code,
                msa_name    |-> meta.msa_name,
                survey_year |-> year]
    IN  IF i = 0
        THEN Append(partial, (meta.col_name :> wage) @@ new)
        ELSE [partial EXCEPT ![i] = (meta.col_name :> wage) @@ @]

\* if key not in partial: partial[key] = {...}; partial[key][col_name] = wage
SetColumn(partial, meta, year, wage) ==
    LET key == <<meta.soc_code, meta.msa_code, year>>
        i   == IndexOfKey(partial, key)
        new == [soc_code    |-> meta.soc_code,
                soc_title   |-> meta.soc_title,
                msa_code    |-> meta.msa_code,
                msa_name    |-> meta.msa_name,
                survey_year |-> year]
    IN  IF i = 0
        THEN Append(partial, (meta.col_name :> wage) @@ new)
        ELSE [partial EXCEPT ![i] = (meta.col_name :> wage) @@ @]

\* Mutant: the key's record is created before the value is looked at, so a
\* suppressed value leaves a record without any wage column.
ParseSeriesRecordFirst(series, partial, all_series) ==
    LET sid         == Get(series, "seriesID", <<>>)
        meta        == MetaGet(all_series, sid)
        data_points == Get(series, "data", <<>>)
    IN  IF meta = None \/ data_points = <<>>
        THEN Returned(partial)
        ELSE
          LET point == data_points[1]
              year  == IF "year" \in DOMAIN point
                       THEN ParseNumber(point.year)
                       ELSE Some(SURVEY_YEAR)
              wage  == safe_wage(Get(point, "value", <<>>))
          IN  IF year = None
              THEN Raised("invalid literal for int() with base 10")
              ELSE IF wage.raised THEN wage
              ELSE IF wage.value = None
              THEN Returned(
                     IF IndexOfKey(partial, <<meta[1].soc_code, meta[1].msa_code, year[1]>>) = 0
                     THEN Append(partial, [soc_code    |-> meta[1].soc_code,
                                           soc_title   |-> meta[1].soc_title,
                                           msa_code    |-> meta[1].msa_code,
                                           msa_name    |-> meta[1].msa_name,
                                           survey_year |-> year[1]])
                     ELSE partial)
              ELSE Returned(SetColumn(partial, meta[1], year[1], wage.value[1]))

\* Mutant: series_meta[sid] instead of series_meta.get(sid), an unknown
\* identifier raises KeyError.
ParseSeriesUnknownRaises(series, partial, all_series) ==
    LET sid         == Get(series, "seriesID", <<>>)
        meta        == MetaGet(all_series, sid)
        data_points == Get(series, "data", <<>>)
    IN  IF meta = None THEN Raised("KeyError")
        ELSE IF data_points = <<>>
        THEN Returned(partial)
        ELSE
          LET point == data_points[1]
              year  == IF "year" \in DOMAIN point
                       THEN ParseNumber(point.year)
                       ELSE Some(SURVEY_YEAR)
              wage  == safe_wage(Get(point, "value", <<>>))
          IN  IF year = None
              THEN Raised("invalid literal for int() with base 10")
              ELSE IF wage.raised THEN wage
              ELSE IF wage.value = None
              THEN Returned(partial)
              ELSE Returned(SetColumn(partial, meta[1], year[1], wage.value[1]))

\* The body of the loop over series_list for one entry, partial being the
\* dict built so far: the result is the dict after it, or the exception.
ParseSeries(series, partial, all_series) ==
    LET sid         == Get(series, "seriesID", <<>>)
        meta        == MetaGet(all_series, sid)
        data_points == Get(series, "data", <<>>)
    IN  IF meta = None \/ data_points = <<>>
        THEN Returned(partial)
        ELSE
          LET point == data_points[1]
              year  == IF "year" \in DOMAIN point
                       THEN ParseNumber(point.year)
                       ELSE Some(SURVEY_YEAR)
              wage  == safe_wage(Get(point, "value", <<>>))
          IN  IF year = None
              THEN Raised("invalid literal for int() with base 10")
              ELSE IF wage.raised THEN wage
              ELSE IF wage.value = None
              THEN Returned(partial)
              ELSE Returned(SetColumn(partial, meta[1], year[1], wage.value[1]))

\* The loop over series_list[lo..hi] in order, started with result acc; an
\* exception ends it.  (The range is split in two halves, first half first,
\* which keeps the evaluation shallow.)
RECURSIVE ParseRange(_, _, _, _, _)
ParseRange(series_list, lo, hi, acc, all_series) ==
    IF acc.raised \/ lo > hi THEN acc
    ELSE IF lo = hi THEN ParseSeries(series_list[lo], acc.value, all_series)
    ELSE LET mid == (lo + hi) \div 2
         IN  ParseRange(series_list, mid + 1, hi,
                        ParseRange(series_list, lo, mid, acc, all_series),
                        all_series)

parse_response(response_data, all_series) ==
    LET series_list == Get(Get(response_data, "Results", <<>>), "series", <<>>)
    IN  ParseRange(series_list, 1, Len(series_list), Returned(<<>>), all_series)

\* returned_ids of main: the seriesID of every entry with a non-empty data.
ReturnedIds(response) ==
    LET series_list == Get(Get(response, "Results", <<>>), "series", <<>>)
    IN  { Get(series_list[i], "seriesID", <<>>) :
            i \in { j \in DOMAIN series_list : Get(series_list[j], "data", <<>>) # <<>> } }

\* dict.update(partial): a key of partial replaces the record master holds
\* for it (in place), a new key is appended.
RECURSIVE DictUpdate(_, _)
DictUpdate(master, partial) ==
    IF partial = <<>> THEN master
    ELSE LET rec == Head(partial)
             i   == IndexOfKey(master, KeyOf(rec))
         IN  DictUpdate(IF i = 0 THEN Append(master, rec)
                                 ELSE [master EXCEPT ![i] = rec],
                        Tail(partial))

\* ------------------------------------------------------------------------
\* State
\* ------------------------------------------------------------------------

\* The pipeline processes (one main() each).
Runs == {1, 2}

VARIABLES
    run,                 \* run[r]: the locals of main() in process r, its
                         \* connection, and the history the properties read
    soc_code_reference,  \* table: the occupation catalog, in soc_code order
    bls_wage_data,       \* table: the committed wage rows
    pipeline_run_log,    \* table: the committed audit rows, oldest first
    api                  \* what the BLS API holds (a member of Worlds)

vars == <<run, soc_code_reference, bls_wage_data, pipeline_run_log, api>>

WageCols == {DATA_TYPES[d].col_name : d \in DOMAIN DATA_TYPES}

\* The parameters load_wage_rows binds for one aggregated record: absent wage
\* columns become NULL (None).
RowOf(row_data) ==
    [soc_code        |-> row_data.soc_code,
     soc_title       |-> row_data.soc_title,
     msa_code        |-> row_data.msa_code,
     msa_name        |-> row_data.msa_name,
     reference_year  |-> row_data.survey_year,
     annual_mean     |-> IF "annual_mean" \in DOMAIN row_data THEN Some(row_data.annual_mean) ELSE None,
     pct_10          |-> IF "pct_10" \in DOMAIN row_data THEN Some(row_data.pct_10) ELSE None,
     pct_25          |-> IF "pct_25" \in DOMAIN row_data THEN Some(row_data.pct_25) ELSE None,
     pct_50          |-> IF "pct_50" \in DOMAIN row_data THEN Some(row_data.pct_50) ELSE None,
     pct_75          |-> IF "pct_75" \in DOMAIN row_data THEN Some(row_data.pct_75) ELSE None,
     pct_90          |-> IF "pct_90" \in DOMAIN row_data THEN Some(row_data.pct_90) ELSE None,
     data_source     |-> "BLS_OEWS",
     pipeline_run_id |-> None]

\* The columns of the uniqueness constraint of bls_wage_data.
RowKey(row) == <<row.soc_code, row.msa_code, row.reference_year>>

\* A row some earlier writer committed for (catalog row s, MSA m, year).
OldRow(s, m, year) ==
    [soc_code        |-> SocPool[s].soc_code,
     soc_title       |-> SocPool[s].soc_title,
     msa_code        |-> MSA_CODES[m].msa_code,
     msa_name        |-> MSA_CODES[m].msa_name,
     reference_year  |-> year,
     annual_mean     |-> Some(Finite(99)),
     pct_10          |-> None,
     pct_25          |-> None,
     pct_50          |-> Some(Finite(99)),
     pct_75          |-> None,
     pct_90          |-> None,
     data_source     |-> "BLS_OEWS",
     pipeline_run_id |-> None]

\* The contents bls_wage_data may have when a run starts.
InitTables ==
    { {},
      { OldRow(1, m, SURVEY_YEAR) : m \in DOMAIN MSA_CODES } }

\* The locals of main() after line 475, before the try block; run r has not
\* connected yet.
FreshRun(regkey) ==
    [pc               |-> "connect",
     regkey           |-> regkey,
     conn             |-> "none",      \* none | open | broken | closed
     txn              |-> "none",      \* none | open | aborted
     tx               |-> {},          \* rows inserted, not yet committed
     soc_map          |-> <<>>,
     total_series     |-> None,        \* None while the name is unbound
     batch_num        |-> 0,
     master           |-> <<>>,
     series_gaps      |-> <<>>,
     series_with_data |-> 0,
     status           |-> "SUCCESS",
     error_msg        |-> None,
     records_received |-> 0,
     records_written  |-> 0,
     i                |-> 0,           \* load_wage_rows: records executed
     written          |-> 0,           \* load_wage_rows: its local counter
     exit_code        |-> None,
     \* history
     sleeps           |-> 0,           \* time.sleep calls made
     requests         |-> <<>>,        \* batch_ids of every call of the API
     batch_log        |-> <<>>,        \* per batch fetched: "none" | "data"
     contributed      |-> {},          \* <<key, column>> parsed with a value
     raised_in        |-> "",          \* step whose exception main caught
     table_at_start   |-> {},          \* bls_wage_data when the model starts
     table_at_load    |-> {},          \* bls_wage_data when the load began
     after_load_of    |-> {},          \* runs whose load had returned by then
     log_calls        |-> 0,           \* calls of log_pipeline_run
     audit            |-> None,        \* the audit row this run committed
     audit_failed     |-> FALSE,       \* the audit write raised
     logger_raised    |-> FALSE]       \* log_pipeline_run raised to main

IdleRun == [FreshRun(FALSE) EXCEPT !.pc = "idle"]

\* What a database call can come to on a live connection with no failed
\* transaction: it succeeds, the statement is rejected (the connection
\* survives, the transaction is aborted), or the connection is lost.
DbOutcomes == {"ok", "stmt", "drop"}

\* The outcome of cursor() + execute() for run record rr when the server
\* would answer o: a broken connection raises at cursor(), an aborted
\* transaction rejects every statement.
ExecOutcome(rr, o) ==
    IF rr.conn = "broken" THEN "closed"
    ELSE IF rr.txn = "aborted" THEN "stmt"
    ELSE o

ExcMessage(o) ==
    CASE o = "stmt"   -> "statement rejected"
      [] o = "drop"   -> "server closed the connection unexpectedly"
      [] o = "closed" -> "connection already closed"

\* The connection of rr after execute() ended with outcome o (not "ok").
AfterExecError(rr, o) ==
    CASE o = "stmt"   -> [rr EXCEPT !.txn = "aborted"]
      [] o = "drop"   -> [rr EXCEPT !.conn = "broken", !.txn = "none", !.tx = {}]
      [] o = "closed" -> rr

\* Mutant: the except block writes its own audit row before the finally
\* block writes one.
CaughtAndLogged(rr, msg, where) ==
    [rr EXCEPT !.status = "FAILED", !.error_msg = Some(msg), !.pc = "log",
               !.raised_in = where, !.log_calls = @ + 1]

\* except Exception as exc in main (lines 563-566).
Caught(rr, msg, where) ==
    [rr EXCEPT !.status = "FAILED", !.error_msg = Some(msg), !.pc = "log",
               !.raised_in = where]

Update(r, rr) == run' = [run EXCEPT ![r] = rr]

\* ------------------------------------------------------------------------
\* main(): connect, read the catalog, build the series
\* ------------------------------------------------------------------------

\* get_connection(): on failure main exits with code 1 before anything else.
Connect(r) ==
    /\ run[r].pc = "connect"
    /\ \/ Update(r, [run[r] EXCEPT !.conn = "open", !.pc = "catalog"])
       \/ Update(r, [run[r] EXCEPT !.pc = "exited", !.exit_code = Some(1)])
    /\ UNCHANGED <<soc_code_reference, bls_wage_data, pipeline_run_log, api>>

\* Mutant: no check of the catalog, an empty one gives no series and no
\* batch, and main goes on to the load.
CatalogReadUnchecked(rr, catalog, o) ==
    LET e == ExecOutcome(rr, o)
    IN  IF e # "ok"
        THEN Caught(AfterExecError(rr, e), ExcMessage(e), "catalog")
        ELSE LET r1 == [rr EXCEPT !.txn = "open", !.soc_map = catalog]
             IN  [r1 EXCEPT !.total_series = Some(Len(build_all_series(catalog))),
                            !.batch_num = 1,
                            !.pc = IF catalog = <<>> THEN "load" ELSE "fetch"]

\* Steps 1-3 of main: fetch_soc_codes, the empty-catalog check,
\* build_all_series and the batching.  The SELECT opens a transaction.
CatalogRead(rr, catalog, o) ==
    LET e == ExecOutcome(rr, o)
    IN  IF e # "ok"
        THEN Caught(AfterExecError(rr, e), ExcMessage(e), "catalog")
        ELSE LET r1 == [rr EXCEPT !.txn = "open", !.soc_map = catalog]
             IN  IF catalog = <<>>
                 THEN Caught(r1, "soc_code_reference is empty", "catalog")
                 ELSE [r1 EXCEPT !.total_series = Some(Len(build_all_series(catalog))),
                                 !.batch_num = 1,
                                 !.pc = "fetch"]

ReadCatalog(r) ==
    /\ run[r].pc = "catalog"
    /\ \E o \in DbOutcomes : Update(r, CatalogRead(run[r], soc_code_reference, o))
    /\ UNCHANGED <<soc_code_reference, bls_wage_data, pipeline_run_log, api>>

\* ------------------------------------------------------------------------
\* main(): the fetch loop
\* ------------------------------------------------------------------------

\* <<key, column>> for every wage column a parsed partial sets.
Contributions(partial) ==
    UNION { { <<KeyOf(partial[i]), c>> : c \in (DOMAIN partial[i]) \cap WageCols } :
            i \in DOMAIN partial }

\* master.update(partial) of main (line 540).
MergeIntoMaster(master, partial) == DictUpdate(master, partial)

\* Mutant: the sleep is not guarded, it also follows the last batch.
AfterBatchAlwaysSleeps(rr, nb) ==
    IF rr.batch_num < nb
    THEN [rr EXCEPT !.sleeps = @ + 1, !.batch_num = @ + 1]
    ELSE [rr EXCEPT !.sleeps = @ + 1, !.pc = "load"]

\* The end of one loop iteration: sleep unless this was the last batch.
AfterBatch(rr, nb) ==
    IF rr.batch_num < nb
    THEN [rr EXCEPT !.sleeps = @ + 1, !.batch_num = @ + 1]
    ELSE [rr EXCEPT !.pc = "load"]

\* Mutant: every identifier the response and the batch do not share is a gap.
MissingIdsOrUnrequested(batch_ids, returned_ids) ==
    LET missing == SelectSeq(batch_ids, LAMBDA sid : sid \notin returned_ids)
    IN  IF UnknownSid \in returned_ids THEN Append(missing, UnknownSid) ELSE missing

\* for sid in batch_ids: if sid not in returned_ids: series_gaps.append(sid)
MissingIds(batch_ids, returned_ids) ==
    SelectSeq(batch_ids, LAMBDA sid : sid \notin returned_ids)

\* One iteration of the loop over batches (lines 513-549), the call returning
\* what net says.
ProcessBatch(rr, all_series, nb, batch_ids, net) ==
    LET response == fetch_bls_batch(net)
        called   == [rr EXCEPT !.requests = Append(@, batch_ids)]
    IN  IF response.raised THEN Caught(called, response.msg, "fetch")
        ELSE IF response.value = None
        THEN AfterBatch([called EXCEPT !.series_gaps = @ \o batch_ids,
                                       !.batch_log = Append(@, "none")], nb)
        ELSE
          LET data    == response.value[1]
              parsed  == parse_response(data, all_series)
              returned_ids == ReturnedIds(data)
          IN  IF parsed.raised THEN Caught(called, parsed.msg, "parse")
              ELSE AfterBatch(
                     [called EXCEPT
                        !.series_gaps = @ \o MissingIds(batch_ids, returned_ids),
                        !.series_with_data = @ + Cardinality(returned_ids),
                        !.master = MergeIntoMaster(@, parsed.value),
                        !.contributed = @ \cup Contributions(parsed.value),
                        !.batch_log = Append(@, "data")], nb)

\* len(batches) for the run's catalog and batch size.
NumBatchesOf(rr) ==
    NumBatches(Len(build_all_series(rr.soc_map)), BATCH_SIZE(rr.regkey))

\* batch_ids of the iteration the run is at.
CurrentBatchIds(rr) ==
    BatchIds(Batch(build_all_series(rr.soc_map), BATCH_SIZE(rr.regkey), rr.batch_num))

FetchBatch(r) ==
    /\ run[r].pc = "fetch"
    /\ LET rr        == run[r]
           batch_ids == CurrentBatchIds(rr)
       IN  \E net \in NetOutcomes(api, batch_ids) :
              Update(r, ProcessBatch(rr, build_all_series(rr.soc_map),
                                     NumBatchesOf(rr), batch_ids, net))
    /\ UNCHANGED <<soc_code_reference, bls_wage_data, pipeline_run_log, api>>

\* ------------------------------------------------------------------------
\* STEP 5: load_wage_rows
\* ------------------------------------------------------------------------

\* The load of the run with record rr returned normally (history).
LoadReturned(rr) ==
    rr.pc \in {"log", "summary", "exited"} /\ rr.records_received > 0 /\ rr.raised_in = ""

\* Lines 554-561: count the aggregated records; load when there are any.
BeginLoad(r) ==
    /\ run[r].pc = "load"
    /\ LET n == Len(run[r].master)
       IN  Update(r, IF n > 0
                     THEN [run[r] EXCEPT !.records_received = n, !.pc = "insert",
                                         !.i = 0, !.written = 0,
                                         !.table_at_load = bls_wage_data,
                                         !.after_load_of =
                                             {q \in Runs \ {r} : LoadReturned(run[q])}]
                     ELSE [run[r] EXCEPT !.records_received = n, !.pc = "log"])
    /\ UNCHANGED <<soc_code_reference, bls_wage_data, pipeline_run_log, api>>

\* Mutant: no uniqueness constraint on the table, only rows of this
\* transaction are seen.
ConflictsWithinTx(row, table, tx) == \E x \in tx : RowKey(x) = RowKey(row)

\* INSERT ... ON CONFLICT (soc_code, msa_code, reference_year) DO NOTHING:
\* the row conflicts with a committed row or one of this transaction.
Conflicts(row, table, tx) == \E x \in table \cup tx : RowKey(x) = RowKey(row)

\* Mutant: no unique index to wait on, concurrent inserts never see each other.
NeverBlocked(r, row) == FALSE

\* The insert waits while another transaction holds an uncommitted row with
\* the same key (it is decided when that transaction commits or rolls back).
Blocked(r, row) ==
    \E q \in Runs \ {r} : \E x \in run[q].tx : RowKey(x) = RowKey(row)

\* Mutant: written += 1 for every record executed, whatever cur.rowcount.
InsertRowCountAll(rr, table) ==
    LET row == RowOf(rr.master[rr.i + 1])
    IN  IF \E x \in table \cup rr.tx : RowKey(x) = RowKey(row)
        THEN [rr EXCEPT !.i = @ + 1, !.txn = "open", !.written = @ + 1]
        ELSE [rr EXCEPT !.i = @ + 1, !.txn = "open",
                        !.tx = @ \cup {row}, !.written = @ + 1]

\* cur.execute(BLS_UPSERT_SQL, record); if cur.rowcount == 1: written += 1
InsertRow(rr, table) ==
    LET row == RowOf(rr.master[rr.i + 1])
    IN  IF Conflicts(row, table, rr.tx)
        THEN [rr EXCEPT !.i = @ + 1, !.txn = "open"]
        ELSE [rr EXCEPT !.i = @ + 1, !.txn = "open",
                        !.tx = @ \cup {row}, !.written = @ + 1]

\* Mutant: partial credit, the rows counted before the failure are reported.
LoadFailedPartialCredit(rr, e, where) ==
    LET r1 == AfterExecError(rr, e)
    IN  IF r1.conn = "broken"
        THEN [rr EXCEPT !.conn = "broken", !.txn = "none", !.tx = {},
                        !.status = "FAILED", !.error_msg = Some("connection already closed"),
                        !.pc = "log", !.raised_in = where,
                        !.records_written = rr.written]
        ELSE [r1 EXCEPT !.tx = {}, !.txn = "none",
                        !.status = "FAILED", !.error_msg = Some("statement rejected"),
                        !.pc = "log", !.raised_in = where,
                        !.records_written = rr.written]

\* except Exception: conn.rollback(); raise -- and main's handler.  On a
\* broken connection rollback() itself raises, and that exception is the one
\* main catches.
LoadFailed(rr, e, where) ==
    LET r1 == AfterExecError(rr, e)
    IN  IF r1.conn = "broken"
        THEN Caught(r1, ExcMessage("closed"), where)
        ELSE Caught([r1 EXCEPT !.tx = {}, !.txn = "none"], ExcMessage(e), where)

Insert(r) ==
    /\ run[r].pc = "insert"
    /\ run[r].i < Len(run[r].master)
    /\ \E o \in DbOutcomes :
          LET e == ExecOutcome(run[r], o)
          IN  IF e = "ok"
              THEN /\ ~Blocked(r, RowOf(run[r].master[run[r].i + 1]))
                   /\ Update(r, InsertRow(run[r], bls_wage_data))
              ELSE Update(r, LoadFailed(run[r], e, "insert"))
    /\ UNCHANGED <<soc_code_reference, bls_wage_data, pipeline_run_log, api>>

\* conn.commit() after the loop, then "return written" into records_written.
\* The connection may be found lost before COMMIT reaches the server (nothing
\* is committed then); a COMMIT whose acknowledgement is lost is not modelled.
Commit(r) ==
    /\ run[r].pc = "insert"
    /\ run[r].i = Len(run[r].master)
    /\ \/ /\ bls_wage_data' = bls_wage_data \cup run[r].tx
          /\ Update(r, [run[r] EXCEPT !.tx = {}, !.txn = "none",
                                      !.records_written = run[r].written,
                                      !.pc = "log"])
       \/ /\ Update(r, LoadFailed(run[r], "drop", "commit"))
          /\ UNCHANGED bls_wage_data
    /\ UNCHANGED <<soc_code_reference, pipeline_run_log, api>>

\* ------------------------------------------------------------------------
\* The run logger and the end of main
\* ------------------------------------------------------------------------

\* Mutant: the flag is raised only when fewer records were written than
\* received.
AuditRowFlagsShortfall(pipeline_type, status, records_requested, records_received, records_written, error_message) ==
    [pipeline_type     |-> pipeline_type,
     status            |-> status,
     records_requested |-> records_requested,
     records_received  |-> records_received,
     records_written   |-> records_written,
     discrepancy_flag  |-> records_received > records_written,
     error_message     |-> error_message]

\* The audit row log_pipeline_run builds (duration and timestamp left out).
AuditRow(pipeline_type, status, records_requested, records_received, records_written, error_message) ==
    [pipeline_type     |-> pipeline_type,
     status            |-> status,
     records_requested |-> records_requested,
     records_received  |-> records_received,
     records_written   |-> records_written,
     discrepancy_flag  |-> records_received # records_written,
     error_message     |-> error_message]

\* Mutant: the received count is passed for the written count too.
MainAuditRowReceivedTwice(rr) ==
    AuditRow("BLS_OEWS", rr.status,
             IF rr.total_series = None THEN 0 ELSE rr.total_series[1],
             rr.records_received, rr.records_received, rr.error_msg)

\* The arguments main passes in its finally block (lines 570-579).
MainAuditRow(rr) ==
    AuditRow("BLS_OEWS", rr.status,
             IF rr.total_series = None THEN 0 ELSE rr.total_series[1],
             rr.records_received, rr.records_written, rr.error_msg)

\* log_pipeline_run on the connection of rr, the server answering o:
\* [raised, committed, rr].  try: execute + commit; except: warn and
\* conn.rollback(), which raises on a broken connection.
log_pipeline_run(rr, o) ==
    LET e == ExecOutcome(rr, o)
    IN  IF e = "ok"
        THEN [raised |-> FALSE, committed |-> TRUE,
              rr |-> [rr EXCEPT !.tx = {}, !.txn = "none"]]
        ELSE LET r1 == AfterExecError(rr, e)
             IN  IF r1.conn = "broken"
                 THEN [raised |-> TRUE, committed |-> FALSE, rr |-> r1]
                 ELSE [raised |-> FALSE, committed |-> FALSE,
                       rr |-> [r1 EXCEPT !.tx = {}, !.txn = "none"]]

\* The finally block of main: one call of the logger, then conn.close().
\* An exception leaving the logger leaves main too: the interpreter exits
\* with code 1.
Finally(rr, o) ==
    LET row == MainAuditRow(rr)
        res == log_pipeline_run(rr, o)
        r1  == [res.rr EXCEPT !.log_calls = @ + 1,
                              !.audit = IF res.committed THEN Some(row) ELSE None,
                              !.audit_failed = ~res.committed,
                              !.logger_raised = res.raised]
    IN  IF res.raised
        THEN [r1 EXCEPT !.pc = "exited", !.exit_code = Some(1)]
        ELSE [r1 EXCEPT !.conn = "closed", !.pc = "summary"]

LogRun(r) ==
    /\ run[r].pc = "log"
    /\ \E o \in DbOutcomes :
          LET r1 == Finally(run[r], o)
          IN  /\ Update(r, r1)
              /\ pipeline_run_log' =
                    IF r1.audit # None THEN Append(pipeline_run_log, r1.audit[1])
                    ELSE pipeline_run_log
              \* conn.commit() commits whatever the transaction holds
              /\ bls_wage_data' =
                    IF r1.audit # None THEN bls_wage_data \cup run[r].tx
                    ELSE bls_wage_data
    /\ UNCHANGED <<soc_code_reference, api>>

\* The summary and lines 613-614: sys.exit(1) unless status is SUCCESS.
ExitCode(status) == IF status # "SUCCESS" THEN 1 ELSE 0

Exit(r) ==
    /\ run[r].pc = "summary"
    /\ Update(r, [run[r] EXCEPT !.pc = "exited",
                                !.exit_code = Some(ExitCode(run[r].status))])
    /\ UNCHANGED <<soc_code_reference, bls_wage_data, pipeline_run_log, api>>

\* ------------------------------------------------------------------------
\* Specification of one run
\* ------------------------------------------------------------------------

Init ==
    /\ soc_code_reference \in Catalogs
    /\ bls_wage_data \in InitTables
    /\ pipeline_run_log = <<>>
    /\ api \in Worlds
    /\ \E regkey \in BOOLEAN :
          run = [r \in Runs |->
                  IF r = 1
                  THEN [FreshRun(regkey) EXCEPT !.table_at_start = bls_wage_data]
                  ELSE IdleRun]

Next ==
    \E r \in Runs :
        \/ Connect(r)
        \/ ReadCatalog(r)
        \/ FetchBatch(r)
        \/ BeginLoad(r)
        \/ Insert(r)
        \/ Commit(r)
        \/ LogRun(r)
        \/ Exit(r)

Spec == Init /\ [][Next]_vars

\* ------------------------------------------------------------------------
\* Properties of one run (checked under Spec)
\* ------------------------------------------------------------------------

\* main has left the try/finally statement.
Ended == {"summary", "exited"}

\* The record master holds for key has column col.
HasColumn(master, key, col) ==
    \E i \in DOMAIN master : KeyOf(master[i]) = key /\ col \in DOMAIN master[i]

\* C1: after the last batch, the record of every key has a column for every
\* series of that key that returned a present value in any batch of the run.
C1_MergesAcrossBatches ==
    \A r \in Runs :
        run[r].pc = "load" =>
            \A kc \in run[r].contributed : HasColumn(run[r].master, kc[1], kc[2])

\* The aggregation of all the API holds for the run's series, parsed as one
\* response (one batch holding every identifier).
SingleBatchAggregation(rr) ==
    LET all_series == build_all_series(rr.soc_map)
    IN  parse_response(
            [Results |-> [series |-> ApiSeries(api, BatchIds(all_series))]],
            all_series).value

\* C2: when every batch returned data, the final aggregation is the one a
\* single batch of all identifiers gives: it does not depend on the batching.
C2_BatchingIndependent ==
    \A r \in Runs :
        (run[r].pc = "load" /\ "none" \notin Range(run[r].batch_log)) =>
            Range(run[r].master) = Range(SingleBatchAggregation(run[r]))

\* The calls the claim names: a transport error, a rejected HTTP status, a
\* JSON object without "status" or without "Results".
SoftFailure(net) ==
    \/ net.kind \in {"transport", "http"}
    \/ net.kind = "json" /\ ~({"status", "Results"} \subseteq DOMAIN net.body)

\* A step of run r in which its batch came back as "no response".
BatchFailedStep(r) ==
    /\ run[r].pc = "fetch"
    /\ run'[r].batch_log = Append(run[r].batch_log, "none")

\* C3: a batch whose call fails softly yields no response; the step then adds
\* every identifier of the batch to the gap list, leaves the aggregation and
\* the status alone and goes on to the next batch (to the load after the last
\* one); and the loop ends only when every batch has been fetched.
C3_BatchFailureIsSoft ==
    [][ \A r \in Runs :
          /\ run[r].pc = "fetch" =>
                \A net \in NetOutcomes(api, CurrentBatchIds(run[r])) :
                    SoftFailure(net) => fetch_bls_batch(net) = Returned(None)
          /\ BatchFailedStep(r) =>
                /\ run'[r].series_gaps = run[r].series_gaps \o CurrentBatchIds(run[r])
                /\ run'[r].master = run[r].master
                /\ run'[r].contributed = run[r].contributed
                /\ run'[r].status = "SUCCESS" /\ run'[r].error_msg = None
                /\ IF run[r].batch_num < NumBatchesOf(run[r])
                   THEN run'[r].pc = "fetch" /\ run'[r].batch_num = run[r].batch_num + 1
                   ELSE run'[r].pc = "load"
          /\ run'[r].pc = "load" =>
                Len(run'[r].batch_log) = NumBatchesOf(run[r])
      ]_vars

\* Batch 2 of 3 failed, batches 1 and 3 gave data that is in the aggregation,
\* the identifiers of batch 2 are gaps, and the run ended SUCCESS with exit 0.
C3_Witness ==
    \E r \in Runs :
        /\ run[r].pc = "exited"
        /\ run[r].batch_log = <<"data", "none", "data">>
        /\ run[r].status = "SUCCESS" /\ run[r].exit_code = Some(0)
        /\ LET all_series == build_all_series(run[r].soc_map)
               ids2 == BatchIds(Batch(all_series, BATCH_SIZE(run[r].regkey), 2))
           IN  /\ Range(ids2) \subseteq Range(run[r].series_gaps)
               /\ \E i, j \in DOMAIN run[r].master :
                     /\ run[r].master[i].msa_code = all_series[1].msa_code
                     /\ run[r].master[j].msa_code = all_series[Len(all_series)].msa_code

\* The rows of a load whose key no row of table has.
NewRows(master, table) ==
    { RowOf(master[i]) : i \in { j \in DOMAIN master :
                                   ~\E x \in table : RowKey(x) = KeyOf(master[j]) } }

\* C4: after a load, the table is the table before it plus one row for every
\* aggregated key that was absent; rows that were there are unchanged; the
\* written count is the number of rows inserted.
C4_InsertOnlyAbsentKeys ==
    \A r \in Runs :
        LoadReturned(run[r]) =>
            LET new == NewRows(run[r].master, run[r].table_at_load)
            IN  /\ bls_wage_data = run[r].table_at_load \cup new
                /\ run[r].records_written = Cardinality(new)
                /\ \A x, y \in bls_wage_data : RowKey(x) = RowKey(y) => x = y

\* A load that found some keys present and some absent.
C4_Witness ==
    \E r \in Runs :
        /\ LoadReturned(run[r])
        /\ run[r].records_written > 0
        /\ run[r].records_written < run[r].records_received
        /\ \E x \in run[r].table_at_load : \E i \in DOMAIN run[r].master :
              RowKey(x) = KeyOf(run[r].master[i]) /\ x # RowOf(run[r].master[i])

\* C6 as claimed: when an insert of the load raised, no row of the load
\* persists, the run is FAILED, and the audit row is written with
\* records_written = 0 and records_received = the number of aggregated records.
C6_AuditRowAlwaysWritten ==
    \A r \in Runs :
        (run[r].raised_in = "insert" /\ run[r].pc \in Ended) =>
            /\ bls_wage_data = run[r].table_at_load
            /\ run[r].status = "FAILED"
            /\ run[r].audit # None
            /\ run[r].audit[1].records_written = 0
            /\ run[r].audit[1].records_received = Len(run[r].master)

\* C6 (amended): when an insert of the load raised, no row of the load
\* persists, an exception reached main, the run is FAILED, and the logger was
\* called once with records_written = 0 and records_received = the number of
\* aggregated records; the audit row holds these values unless the audit
\* write itself failed.
C6_LoadFailureRollsBack ==
    \A r \in Runs :
        (run[r].raised_in = "insert" /\ run[r].pc \in Ended) =>
            /\ bls_wage_data = run[r].table_at_load
            /\ run[r].tx = {}
            /\ run[r].status = "FAILED" /\ run[r].error_msg # None
            /\ run[r].log_calls = 1
            /\ MainAuditRow(run[r]).records_written = 0
            /\ MainAuditRow(run[r]).records_received = Len(run[r].master)
            /\ MainAuditRow(run[r]).status = "FAILED"
            /\ run[r].audit_failed \/ run[r].audit = Some(MainAuditRow(run[r]))
            /\ run[r].audit # None => run[r].audit[1] = pipeline_run_log[Len(pipeline_run_log)]

\* An insert raised after at least one row had been inserted by this load,
\* and the audit row was written.
C6_Witness ==
    \E r \in Runs :
        /\ run[r].raised_in = "insert" /\ run[r].pc = "exited"
        /\ run[r].written > 0
        /\ run[r].audit # None

\* C7: the logger is called at most once; it has been called exactly once
\* when main has left its finally block; and it is called only once the run
\* is over: FAILED with an exception caught, or SUCCESS with every batch
\* fetched and the load (if any) returned.
C7_LoggerExactlyOnce ==
    \A r \in Runs :
        /\ run[r].log_calls <= 1
        /\ (run[r].pc \in Ended /\ run[r].conn # "none") <=> run[r].log_calls = 1
        /\ run[r].log_calls = 1 =>
              \/ run[r].status = "FAILED" /\ run[r].raised_in # ""
              \/ /\ run[r].status = "SUCCESS" /\ run[r].raised_in = ""
                 /\ Len(run[r].batch_log) = NumBatchesOf(run[r])
                 /\ run[r].records_received = Len(run[r].master)
                 /\ run[r].records_received > 0 => run[r].i = Len(run[r].master)

\* Both paths: some run ended FAILED after a load failure with one call.
C7_Witness ==
    \E r \in Runs :
        /\ run[r].pc = "exited" /\ run[r].log_calls = 1
        /\ run[r].status = "FAILED" /\ run[r].raised_in = "insert"

\* C8: when the audit write fails, the logger raises nothing to main, and the
\* exit code is the one the status gives.
C8_AuditFailureSwallowed ==
    \A r \in Runs :
        run[r].audit_failed =>
            /\ ~run[r].logger_raised
            /\ run[r].pc = "exited" => run[r].exit_code = Some(ExitCode(run[r].status))

\* C9: an exception caught by main makes the run FAILED with its message as
\* the error text of the audit row (when one is written), and the exit code
\* is 1 exactly when the final status is not SUCCESS.
C9_FailedIffExitOne ==
    \A r \in Runs :
        (run[r].pc = "exited" /\ run[r].conn # "none") =>
            /\ run[r].raised_in # "" =>
                  /\ run[r].status = "FAILED" /\ run[r].error_msg # None
                  /\ run[r].audit # None =>
                        run[r].audit[1].error_message = run[r].error_msg
            /\ (run[r].exit_code = Some(1)) <=> (run[r].status # "SUCCESS")
            /\ (run[r].exit_code = Some(0)) <=> (run[r].status = "SUCCESS")

\* The run of r has built its series list (the catalog was not empty).
BuiltSeries(r) == run[r].pc # "idle" /\ run[r].total_series # None

\* C13: every iteration of the fetch loop makes exactly one call of the API,
\* and calls are made nowhere else; call k is made while the loop is at batch
\* k and asks for the identifiers (k-1)*size+1 .. k*size of the descriptor list
\* (fewer only at the end of the list), size being 50 with a registration key
\* and 25 without; the loop then moves to batch k+1, whatever the call came
\* to, and it ends without an exception only when the calls have covered the
\* whole list.
C13_OneCallPerBatch ==
    [][ \A r \in Runs :
          LET before == run[r].requests
              after  == run'[r].requests
              size   == IF run[r].regkey THEN 50 ELSE 25
              total  == Len(build_all_series(run'[r].soc_map))
          IN  /\ (run[r].pc = "fetch") <=> (after # before)
              /\ after # before =>
                    LET k   == Len(after)
                        new == after[k]
                    IN  /\ after = Append(before, new)
                        /\ k = run[r].batch_num
                        /\ Len(new) >= 1 /\ Len(new) <= size
                        /\ Len(new) = (IF k * size <= total THEN size
                                                            ELSE total - (k - 1) * size)
                        /\ \A j \in DOMAIN new :
                              new[j] = build_all_series(run[r].soc_map)[(k - 1) * size + j].series_id
              /\ run'[r].pc = "fetch" =>
                    /\ run'[r].batch_num = Len(after) + 1
                    /\ Len(after) * size < total
              /\ (run[r].pc = "fetch" /\ run'[r].pc # "fetch"
                                      /\ run'[r].raised_in \notin {"fetch", "parse"}) =>
                    /\ (Len(after) - 1) * size < total
                    /\ Len(after) * size >= total
      ]_vars

\* Sixty descriptors without a key: three calls (25, 25, 10), the second of
\* which failed and was not repeated.
C13_Witness ==
    \E r \in Runs :
        /\ run[r].pc = "load" /\ ~run[r].regkey
        /\ run[r].total_series = Some(60)
        /\ Len(run[r].requests) = 3
        /\ Len(run[r].requests[3]) = 10
        /\ run[r].batch_log[2] = "none"

C19_EmptyCatalogFailsEarly ==
    \A r \in Runs :
        (soc_code_reference = <<>> /\ run[r].pc \notin {"idle", "connect", "catalog"}
                                   /\ run[r].conn # "none") =>
            /\ run[r].status = "FAILED" /\ run[r].raised_in = "catalog"
            /\ run[r].error_msg # None
            /\ run[r].requests = <<>>
            /\ run[r].tx = {} /\ run[r].i = 0
            /\ bls_wage_data = run[r].table_at_start
            /\ run[r].pc \in {"log", "summary", "exited"}
            /\ run[r].pc = "exited" => run[r].exit_code = Some(1)

\* The SELECT returned no row, the run raised on the empty catalog, wrote its
\* audit row and exited with code 1.
C19_Witness ==
    \E r \in Runs :
        /\ soc_code_reference = <<>>
        /\ run[r].pc = "exited" /\ run[r].exit_code = Some(1)
        /\ run[r].error_msg = Some("soc_code_reference is empty")
        /\ run[r].audit # None /\ run[r].audit[1].status = "FAILED"
        /\ run[r].requests = <<>>

\* The fetch loop of r, for a catalog of one code, ended without exception.
OneCodeFetched(r) ==
    /\ BuiltSeries(r) /\ Len(run[r].soc_map) = 1
    /\ run[r].pc # "fetch" /\ run[r].raised_in \notin {"fetch", "parse"}

\* C20 as claimed: with one occupation code and no registration key the 30
\* descriptors are requested in one batch, by one call of the API.
C20_OneCallForThirty ==
    \A r \in Runs :
        (OneCodeFetched(r) /\ ~run[r].regkey) =>
            /\ run[r].total_series = Some(30)
            /\ Len(run[r].requests) = 1

\* C20 (amended): with one occupation code and no registration key the 30
\* descriptors are requested in two batches, of 25 and of 5 identifiers, by
\* two calls of the API with one pause between them; with a registration key
\* (batch size 50) they are requested in one batch by one call.
C20_TwoCallsForThirty ==
    \A r \in Runs :
        OneCodeFetched(r) =>
            /\ run[r].total_series = Some(30)
            /\ IF run[r].regkey
               THEN /\ Len(run[r].requests) = 1
                    /\ Len(run[r].requests[1]) = 30
                    /\ run[r].sleeps = 0
               ELSE /\ Len(run[r].requests) = 2
                    /\ Len(run[r].requests[1]) = 25
                    /\ Len(run[r].requests[2]) = 5
                    /\ run[r].sleeps = 1

\* A run without a key fetched its one code's series and exited SUCCESS.
C20_Witness ==
    \E r \in Runs :
        /\ OneCodeFetched(r) /\ ~run[r].regkey
        /\ run[r].pc = "exited" /\ run[r].status = "SUCCESS"
        /\ Len(run[r].requests) = 2
        /\ run[r].batch_log = <<"data", "data">>

\* ------------------------------------------------------------------------
\* Specification of two runs loading into the same wage table
\* ------------------------------------------------------------------------

Point(year, value) == [kind |-> "point", year |-> year, value |-> value]

\* What the API held when the two runs fetched: every series present for the
\* target year; the same without the annual mean; the annual mean dated one
\* year, the percentiles the other (two records per occupation and MSA, in
\* either order).
LoadWorlds ==
    { [base |-> Point(YearTarget, <<"1","0">>), alt |-> Point(YearTarget, <<"1","0">>),
       focus |-> "none"],
      [base |-> Point(YearTarget, <<"1","0">>), alt |-> Point(YearOther, <<"2","0">>),
       focus |-> "mean"],
      [base |-> Point(YearOther, <<"2","0">>), alt |-> Point(YearTarget, <<"1","0">>),
       focus |-> "mean"] }

\* The response of a call that succeeds with everything the API holds.
FullResponse(w, series_ids) ==
    [kind |-> "json",
     body |-> [status |-> "REQUEST_SUCCEEDED",
               Results |-> [series |-> ApiSeries(w, series_ids)]]]

\* The fetch loop of main run to its end, every call succeeding.
RECURSIVE FetchAll(_, _)
FetchAll(rr, w) ==
    IF rr.pc # "fetch" THEN rr
    ELSE LET all_series == build_all_series(rr.soc_map)
             nb         == NumBatchesOf(rr)
             batch_ids  == CurrentBatchIds(rr)
         IN  FetchAll(ProcessBatch(rr, all_series, nb, batch_ids,
                                   FullResponse(w, batch_ids)), w)

\* A run that connected, read a catalog of one row, and fetched world w: it
\* is about to count and load its aggregation.
RunAtLoad(w, table) ==
    LET connected == [FreshRun(FALSE) EXCEPT !.conn = "open", !.pc = "catalog",
                                             !.table_at_start = table]
    IN  FetchAll(CatalogRead(connected, SubSeq(SocPool, 1, 1), "ok"), w)

LoadInit ==
    /\ soc_code_reference = SubSeq(SocPool, 1, 1)
    /\ bls_wage_data \in InitTables
    /\ pipeline_run_log = <<>>
    /\ api \in LoadWorlds
    /\ \E w \in LoadWorlds :
          run = [r \in Runs |-> IF r = 1 THEN RunAtLoad(w, bls_wage_data)
                                         ELSE RunAtLoad(api, bls_wage_data)]

LoadNext ==
    \E r \in Runs :
        \/ BeginLoad(r)
        \/ Insert(r)
        \/ Commit(r)
        \/ LogRun(r)
        \/ Exit(r)

LoadSpec == LoadInit /\ [][LoadNext]_vars

\* ------------------------------------------------------------------------
\* Properties of loads into the shared table (checked under LoadSpec)
\* ------------------------------------------------------------------------

\* Run r loaded the aggregation that run q had loaded before r began.
SecondLoadOfSame(r, q) ==
    /\ q \in run[r].after_load_of
    /\ run[q].master = run[r].master
    /\ LoadReturned(run[r])

\* C5: a load of the aggregation that another load has already committed
\* writes no row and leaves the table as that first load left it.
C5_LoadIdempotent ==
    \A r, q \in Runs :
        SecondLoadOfSame(r, q) =>
            /\ run[r].records_written = 0
            /\ run[r].written = 0
            /\ bls_wage_data = run[r].table_at_load

\* The first load wrote rows, the second loaded the same aggregation.
C5_Witness ==
    \E r, q \in Runs :
        /\ SecondLoadOfSame(r, q)
        /\ run[q].records_written > 0
        /\ run[r].pc = "exited"

\* Both runs are past their load (returned or failed).
LoadsOver == \A r \in Runs : run[r].pc \in {"log", "summary", "exited"}

RECURSIVE SumWritten(_)
SumWritten(R) ==
    IF R = {} THEN 0
    ELSE LET r == CHOOSE x \in R : TRUE
         IN  run[r].records_written + SumWritten(R \ {r})

AllKeysExistedAtLoad(r) ==
    /\ run[r].master # <<>>
    /\ \A i \in DOMAIN run[r].master :
          \E x \in run[r].table_at_load : RowKey(x) = KeyOf(run[r].master[i])

\* C29: the insert of a record counts as written exactly when no committed
\* row of the wage table has the record's key at that moment.  Every audit
\* row has records_written <= records_received; the audit row of a SUCCESS
\* run has received = the number of aggregated records, written = the number
\* of inserts that found their key absent, and the discrepancy flag exactly
\* when some insert found its key present.  A SUCCESS run all of whose keys
\* were in the table before its load has written = 0 and the flag set.
C29_DiscrepancyIffKeyExisted ==
    [][ \A r \in Runs :
          /\ (run[r].pc = "insert" /\ run'[r].i = run[r].i + 1) =>
                LET key == KeyOf(run[r].master[run[r].i + 1])
                IN  run'[r].written =
                        IF \E x \in bls_wage_data : RowKey(x) = key
                        THEN run[r].written ELSE run[r].written + 1
          /\ (run[r].audit = None /\ run'[r].audit # None) =>
                LET row == run'[r].audit[1]
                IN  /\ row.records_written <= row.records_received
                    /\ row.status = "SUCCESS" =>
                          /\ row.records_received = Len(run[r].master)
                          /\ row.records_written = run[r].written
                          /\ row.discrepancy_flag <=>
                                 (run[r].written < Len(run[r].master))
                          /\ AllKeysExistedAtLoad(r) =>
                                 (row.records_written = 0 /\ row.discrepancy_flag)
      ]_vars

\* The second run loaded the same aggregation after the first run's load had
\* returned: its audit row is SUCCESS with written = 0 and the flag set,
\* while the first run's row has written = received and no flag.
C29_Witness ==
    \E r \in Runs : \E q \in Runs \ {r} :
        /\ q \in run[r].after_load_of
        /\ run[r].master = run[q].master
        /\ run[q].audit # None /\ ~run[q].audit[1].discrepancy_flag
        /\ run[q].audit[1].records_written = Len(run[q].master)
        /\ run[r].audit # None /\ run[r].audit[1].status = "SUCCESS"
        /\ run[r].audit[1].records_written = 0
        /\ run[r].audit[1].discrepancy_flag

\* ------------------------------------------------------------------------
\* Specification of the series builder called on its own
\* ------------------------------------------------------------------------

\* 5-digit MSA codes: the five of MSA_CODES and three more.
AreaCodes ==
    { MSA_CODES[m].msa_code : m \in DOMAIN MSA_CODES }
      \cup { <<"0","0","0","0","0">>, <<"0","0","0","0","1">>, <<"9","9","9","9","9">> }

\* SOC codes of the form XX-XXXX: the pool's and two more.
OccupationCodes ==
    { SocPool[s].soc_code : s \in DOMAIN SocPool }
      \cup { <<"0","0","-","0","0","0","0">>, <<"9","9","-","9","9","9","9">> }

TypeCodes == { DATA_TYPES[d].dt_code : d \in DOMAIN DATA_TYPES }

\* What fetch_soc_codes can return from a table holding at most MaxSoc of the
\* pool's rows: the rows in soc_code order (the empty map included).
BuilderCatalogs ==
    { SelectSeq(SocPool, LAMBDA row : row \in rows) :
        rows \in { R \in SUBSET Range(SocPool) : Cardinality(R) <= MaxSoc } }

\* A call of build_series_id or build_all_series about to be made.
BuilderCall(fn, msa_code, soc_code, data_type, soc_map) ==
    [pc |-> "call", fn |-> fn,
     msa_code |-> msa_code, soc_code |-> soc_code, data_type |-> data_type,
     soc_map |-> soc_map,
     series_id |-> None, all_series |-> None]

BuilderCalls ==
    { BuilderCall("build_series_id", a, s, t, <<>>) :
        a \in AreaCodes, s \in OccupationCodes, t \in TypeCodes }
      \cup { BuilderCall("build_all_series", <<>>, <<>>, <<>>, c) : c \in BuilderCatalogs }

BuilderInit ==
    /\ soc_code_reference = <<>>
    /\ bls_wage_data = {}
    /\ pipeline_run_log = <<>>
    /\ api = <<>>
    /\ \E c \in BuilderCalls :
          run = [r \in Runs |-> IF r = 1 THEN c ELSE [c EXCEPT !.pc = "idle"]]

BuildSeriesId(r) ==
    /\ run[r].pc = "call" /\ run[r].fn = "build_series_id"
    /\ Update(r, [run[r] EXCEPT
                    !.pc = "returned",
                    !.series_id = Some(build_series_id(run[r].msa_code, run[r].soc_code,
                                                       run[r].data_type))])
    /\ UNCHANGED <<soc_code_reference, bls_wage_data, pipeline_run_log, api>>

BuildAllSeries(r) ==
    /\ run[r].pc = "call" /\ run[r].fn = "build_all_series"
    /\ Update(r, [run[r] EXCEPT
                    !.pc = "returned",
                    !.all_series = Some(build_all_series(run[r].soc_map))])
    /\ UNCHANGED <<soc_code_reference, bls_wage_data, pipeline_run_log, api>>

BuilderNext ==
    \E r \in Runs :
        \/ BuildSeriesId(r)
        \/ BuildAllSeries(r)

BuilderSpec == BuilderInit /\ [][BuilderNext]_vars

\* ------------------------------------------------------------------------
\* Properties of the series builder (checked under BuilderSpec)
\* ------------------------------------------------------------------------

\* build_all_series has returned series_list for a catalog of n > 0 rows.
BuiltAll(r) ==
    /\ run[r].pc = "returned" /\ run[r].fn = "build_all_series"
    /\ run[r].soc_map # <<>>

\* C11: for a non-empty catalog of N rows the list has 30 * N descriptors, one
\* for every MSA, catalog row and data type, and no two descriptors have the
\* same series_id.
C11_ThirtyPerCode ==
    \A r \in Runs :
        BuiltAll(r) =>
            LET series_list == run[r].all_series[1]
                soc_map     == run[r].soc_map
            IN  /\ Len(series_list) = 30 * Len(soc_map)
                /\ Cardinality({ series_list[i].series_id : i \in DOMAIN series_list })
                      = Len(series_list)
                /\ \A m \in DOMAIN MSA_CODES, s \in DOMAIN soc_map, d \in DOMAIN DATA_TYPES :
                      \E i \in DOMAIN series_list :
                          /\ series_list[i].msa_code = MSA_CODES[m].msa_code
                          /\ series_list[i].soc_code = soc_map[s].soc_code
                          /\ series_list[i].data_type = DATA_TYPES[d].dt_code

\* The list was built for a catalog of two codes that differ in their last
\* digit only.
C11_Witness ==
    \E r \in Runs :
        /\ BuiltAll(r)
        /\ Len(run[r].soc_map) = 2
        /\ run[r].soc_map[1].soc_code = SocPool[3].soc_code
        /\ run[r].soc_map[2].soc_code = SocPool[4].soc_code
        /\ Len(run[r].all_series[1]) = 60

\* C12: for a 5-digit area code, an XX-XXXX occupation code and a 2-digit type
\* the identifier has 25 characters: OEUM, 00 and the area code, 000000, the
\* occupation code's two and four digits, the type code; and
\* (19740, 15-1252, 03) gives OEUM001974000000015125203.
C12_SeriesIdLayout ==
    /\ build_series_id(<<"1","9","7","4","0">>, <<"1","5","-","1","2","5","2">>, <<"0","3">>)
          = << "O","E","U","M", "0","0","1","9","7","4","0", "0","0","0","0","0","0",
               "1","5","1","2","5","2", "0","3" >>
    /\ \A r \in Runs :
          (run[r].pc = "returned" /\ run[r].fn = "build_series_id") =>
              LET sid == run[r].series_id[1]
              IN  /\ Len(sid) = 25
                  /\ SubSeq(sid, 1, 4) = <<"O","E","U","M">>
                  /\ SubSeq(sid, 5, 6) = <<"0","0">>
                  /\ SubSeq(sid, 7, 11) = run[r].msa_code
                  /\ SubSeq(sid, 12, 17) = <<"0","0","0","0","0","0">>
                  /\ SubSeq(sid, 18, 19) = SubSeq(run[r].soc_code, 1, 2)
                  /\ SubSeq(sid, 20, 23) = SubSeq(run[r].soc_code, 4, 7)
                  /\ SubSeq(sid, 24, 25) = run[r].data_type

\* The identifier of the spec's example has been built.
C12_Witness ==
    \E r \in Runs :
        /\ run[r].pc = "returned" /\ run[r].fn = "build_series_id"
        /\ run[r].msa_code = <<"1","9","7","4","0">>
        /\ run[r].soc_code = <<"1","5","-","1","2","5","2">>
        /\ run[r].data_type = <<"0","3">>
        /\ Len(run[r].series_id[1]) = 25

\* ------------------------------------------------------------------------
\* Specification of one batch answered by a response of any content
\* ------------------------------------------------------------------------

\* Largest number of entries of Results.series in a response.
MaxEntries == 2

\* What "value" of a data point may hold.
ValuePool ==
    Sentinels \cup { <<"1","2","5","0","0","0">>, <<"1","2","x">>, <<"n","a","n">>, JsonNull }

\* The series identifiers of the entries: the annual mean and the 10th
\* percentile of the first key (for a catalog of the pool's first row), and
\* one that no descriptor has.
EntrySids ==
    LET all_series == build_all_series(SubSeq(SocPool, 1, 1))
    IN  { all_series[1].series_id, all_series[2].series_id, UnknownSid }

Entries ==
    { [seriesID |-> sid, data |-> <<>>] : sid \in EntrySids }
      \cup { [seriesID |-> sid, data |-> << [year |-> YearTarget, value |-> v] >>] :
               sid \in EntrySids, v \in ValuePool }

Statuses == {"REQUEST_SUCCEEDED", "REQUEST_NOT_PROCESSED"}

\* The JSON objects with both top-level keys that the API may answer with.
Bodies ==
    { [status |-> st, Results |-> [series |-> list]] :
        st \in Statuses,
        list \in UNION { [1..n -> Entries] : n \in 0..MaxEntries } }

\* A run with a registration key that has read a catalog of one row: its 30
\* series make one batch.
RunAtFetch ==
    CatalogRead([FreshRun(TRUE) EXCEPT !.conn = "open", !.pc = "catalog"],
                SubSeq(SocPool, 1, 1), "ok")

\* Here api is the JSON object the API answers the run's call with.
ParseInit ==
    /\ soc_code_reference = SubSeq(SocPool, 1, 1)
    /\ bls_wage_data = {}
    /\ pipeline_run_log = <<>>
    /\ api \in Bodies
    /\ run = [r \in Runs |-> IF r = 1 THEN RunAtFetch ELSE IdleRun]

\* The iteration of the fetch loop for the batch, the call answered by api.
FetchAnswered(r) ==
    /\ run[r].pc = "fetch"
    /\ Update(r, ProcessBatch(run[r], build_all_series(run[r].soc_map), NumBatchesOf(run[r]),
                              CurrentBatchIds(run[r]), [kind |-> "json", body |-> api]))
    /\ UNCHANGED <<soc_code_reference, bls_wage_data, pipeline_run_log, api>>

ParseNext == \E r \in Runs : FetchAnswered(r)

ParseSpec == ParseInit /\ [][ParseNext]_vars

\* ------------------------------------------------------------------------
\* Properties of parsing (checked under ParseSpec)
\* ------------------------------------------------------------------------

\* The run of r has been through its batch.
Answered(r) == run[r].pc \notin {"idle", "fetch"}

\* The entries of the response that parse_response reads a value from.
ValuedEntries ==
    LET list == api.Results.series
    IN  { list[i] : i \in { j \in DOMAIN list :
                              /\ list[j].seriesID # UnknownSid
                              /\ list[j].data # <<>> } }

\* A string of decimal digits.
IsNumeric(v) == v # JsonNull /\ v # <<>> /\ Range(v) \subseteq Digits

\* C15: parsing the value of a data point never raises; a sentinel and any
\* other non-numeric value give None, a string of digits gives its number;
\* and the columns set in the aggregation are those of the entries whose
\* value is numeric.
C15_ValueParsingTotal ==
    \A r \in Runs :
        Answered(r) =>
            /\ \A e \in ValuedEntries :
                  LET v   == e.data[1].value
                      res == safe_wage(v)
                  IN  /\ ~res.raised
                      /\ IF IsNumeric(v)
                         THEN res.value = Some(Finite(DecimalValue(v)))
                         ELSE res.value = None
            /\ run[r].raised_in = ""
            /\ \A sid \in EntrySids \ {UnknownSid} :
                  LET meta == MetaGet(build_all_series(run[r].soc_map), sid)[1]
                  IN  HasColumn(run[r].master,
                                <<meta.soc_code, meta.msa_code, SURVEY_YEAR>>, meta.col_name)
                      <=> \E e \in ValuedEntries :
                              e.seriesID = sid /\ IsNumeric(e.data[1].value)

\* An entry parse_response skips: unknown identifier, or empty data list.
Skipped(e) == e.seriesID = UnknownSid \/ e.data = <<>>

\* The response without the entries that are skipped.
WithoutSkipped(response) ==
    [response EXCEPT !.Results.series = SelectSeq(@, LAMBDA e : ~Skipped(e))]

\* C16: a response with unknown identifiers and empty data lists is parsed as
\* the response without those entries is: they raise nothing and change
\* nothing, the other entries are processed; a response with only such
\* entries leaves the aggregation empty and the run going.
C16_UnknownAndEmptySkipped ==
    \A r \in Runs :
        Answered(r) =>
            LET all_series == build_all_series(run[r].soc_map)
                rest       == parse_response(WithoutSkipped(api), all_series)
            IN  /\ parse_response(api, all_series) = rest
                /\ (run[r].raised_in = "parse") <=> rest.raised
                /\ ~rest.raised => run[r].master = rest.value /\ run[r].pc = "load"
                /\ WithoutSkipped(api).Results.series = <<>> =>
                      run[r].master = <<>> /\ run[r].raised_in = ""

\* An unknown identifier, then a known series with a value: the value is in
\* the aggregation.
C16_Witness ==
    \E r \in Runs :
        /\ Answered(r) /\ run[r].pc = "load"
        /\ Len(api.Results.series) = 2
        /\ api.Results.series[1].seriesID = UnknownSid
        /\ api.Results.series[1].data # <<>>
        /\ ~Skipped(api.Results.series[2])
        /\ Len(run[r].master) = 1
        /\ run[r].master[1].annual_mean = Finite(125000)

\* The run after its batch, had the API answered the same with the status
\* REQUEST_SUCCEEDED.
AnsweredSucceeded ==
    ProcessBatch(RunAtFetch, build_all_series(RunAtFetch.soc_map), NumBatchesOf(RunAtFetch),
                 CurrentBatchIds(RunAtFetch),
                 [kind |-> "json", body |-> [api EXCEPT !.status = "REQUEST_SUCCEEDED"]])

\* C17: a response with both top-level keys and a status other than
\* REQUEST_SUCCEEDED is returned by fetch_bls_batch and parsed: the batch
\* counts as answered, and the aggregation, the gaps and the counters are
\* those the same response gives with the status REQUEST_SUCCEEDED.
C17_DegradedStatusParsed ==
    \A r \in Runs :
        (Answered(r) /\ api.status # "REQUEST_SUCCEEDED") =>
            /\ fetch_bls_batch([kind |-> "json", body |-> api]) = Returned(Some(api))
            /\ run[r] = AnsweredSucceeded
            /\ run[r].raised_in = "" => run[r].batch_log = <<"data">>

\* A response with status REQUEST_NOT_PROCESSED carried a value, which is in
\* the aggregation.
C17_Witness ==
    \E r \in Runs :
        /\ Answered(r) /\ api.status = "REQUEST_NOT_PROCESSED"
        /\ run[r].pc = "load"
        /\ Len(run[r].master) = 1
        /\ "pct_10" \in DOMAIN run[r].master[1]

\* ------------------------------------------------------------------------
\* Specification of the run logger of the three jobs, called on its own
\* ------------------------------------------------------------------------

\* Largest record count passed to the logger.
MaxRecords == 10

\* The audit row built by log_pipeline_run of csv_ingestion.py.
CsvAuditRow(pipeline_type, status, records_requested, records_received, records_written, error_message) ==
    [pipeline_type     |-> pipeline_type,
     status            |-> status,
     records_requested |-> records_requested,
     records_received  |-> records_received,
     records_written   |-> records_written,
     discrepancy_flag  |-> records_received # records_written,
     error_message     |-> error_message]

\* The audit row built by log_pipeline_run of seed_reference_data.py.
SeedAuditRow(pipeline_type, status, records_requested, records_received, records_written, error_message) ==
    [pipeline_type     |-> pipeline_type,
     status            |-> status,
     records_requested |-> records_requested,
     records_received  |-> records_received,
     records_written   |-> records_written,
     discrepancy_flag  |-> records_received # records_written,
     error_message     |-> error_message]

\* The pipeline_type each job passes to its logger.
PipelineTypes == {"BLS_OEWS", "CSV_EMPLOYEES", "CSV_GRADES", "SEED_REFERENCE"}

\* The row the logger of the job with this pipeline_type builds for a call.
JobAuditRow(c) ==
    CASE c.pipeline_type = "BLS_OEWS" ->
            AuditRow(c.pipeline_type, c.status, c.records_requested,
                     c.records_received, c.records_written, c.error_message)
      [] c.pipeline_type \in {"CSV_EMPLOYEES", "CSV_GRADES"} ->
            CsvAuditRow(c.pipeline_type, c.status, c.records_requested,
                        c.records_received, c.records_written, c.error_message)
      [] c.pipeline_type = "SEED_REFERENCE" ->
            SeedAuditRow(c.pipeline_type, c.status, c.records_requested,
                         c.records_received, c.records_written, c.error_message)

\* The calls of log_pipeline_run about to be made.
LoggerCalls ==
    { [pc |-> "call", pipeline_type |-> t, status |-> st,
       records_requested |-> rec, records_received |-> rec, records_written |-> w,
       error_message |-> IF st = "FAILED" THEN Some("error") ELSE None] :
        t \in PipelineTypes, st \in {"SUCCESS", "FAILED"},
        rec \in 0..MaxRecords, w \in 0..MaxRecords }

LoggerInit ==
    /\ soc_code_reference = <<>>
    /\ bls_wage_data = {}
    /\ pipeline_run_log = <<>>
    /\ api = <<>>
    /\ \E c \in LoggerCalls :
          run = [r \in Runs |-> IF r = 1 THEN c ELSE [c EXCEPT !.pc = "idle"]]

\* try: INSERT the row and commit.
LoggerWrites(r) ==
    /\ run[r].pc = "call"
    /\ pipeline_run_log' = Append(pipeline_run_log, JobAuditRow(run[r]))
    /\ Update(r, [run[r] EXCEPT !.pc = "returned"])
    /\ UNCHANGED <<soc_code_reference, bls_wage_data, api>>

\* except: the statement was rejected, a warning is logged, nothing is written.
LoggerFails(r) ==
    /\ run[r].pc = "call"
    /\ Update(r, [run[r] EXCEPT !.pc = "failed"])
    /\ UNCHANGED <<soc_code_reference, bls_wage_data, pipeline_run_log, api>>

LoggerNext ==
    \E r \in Runs :
        \/ LoggerWrites(r)
        \/ LoggerFails(r)

LoggerSpec == LoggerInit /\ [][LoggerNext]_vars

\* C18: in every audit row written, by any of the three jobs, the counts are
\* those passed to the logger and the discrepancy flag is true exactly when
\* records_received differs from records_written (10 and 7: true; 7 and 7:
\* false).
C18_DiscrepancyFlag ==
    /\ \A i \in DOMAIN pipeline_run_log :
          LET row == pipeline_run_log[i]
          IN  /\ row.discrepancy_flag \in BOOLEAN
              /\ row.discrepancy_flag <=> (row.records_received # row.records_written)
              /\ (row.records_received = 10 /\ row.records_written = 7) => row.discrepancy_flag
              /\ (row.records_received = 7 /\ row.records_written = 7) => ~row.discrepancy_flag
    /\ \A r \in Runs :
          run[r].pc = "returned" =>
              /\ Len(pipeline_run_log) = 1
              /\ pipeline_run_log[1].pipeline_type = run[r].pipeline_type
              /\ pipeline_run_log[1].records_received = run[r].records_received
              /\ pipeline_run_log[1].records_written = run[r].records_written

\* The CSV job logged received = 10 and written = 7, the flag is set.
C18_Witness ==
    /\ Len(pipeline_run_log) = 1
    /\ pipeline_run_log[1].pipeline_type = "CSV_EMPLOYEES"
    /\ pipeline_run_log[1].records_received = 10
    /\ pipeline_run_log[1].records_written = 7
    /\ pipeline_run_log[1].discrepancy_flag

\* ------------------------------------------------------------------------
\* Properties of the fetch loop under Spec
\* ------------------------------------------------------------------------

\* C22: whatever the response to a batch's call is, the iteration does not
\* abort the run: the run stays SUCCESS and goes on to the next batch (to the
\* load after the last one).
C22_NoResponseAbortsRun ==
    [][ \A r \in Runs :
          run[r].pc = "fetch" =>
              /\ run'[r].pc \in {"fetch", "load"}
              /\ run'[r].status = "SUCCESS"
      ]_vars

\* The series of descriptor d gave a value to the aggregation of run r.
ContributedValue(r, d) ==
    \E kc \in run[r].contributed :
        kc[1][1] = d.soc_code /\ kc[1][2] = d.msa_code /\ kc[2] = d.col_name

\* C23: at the end of the fetch loop the gap list holds exactly the requested
\* identifiers that contributed no value to the aggregation.
C23_GapsAreTheUnresolved ==
    \A r \in Runs :
        run[r].pc = "load" =>
            LET all_series == build_all_series(run[r].soc_map)
            IN  \A i \in DOMAIN all_series :
                    (all_series[i].series_id \in Range(run[r].series_gaps))
                        <=> ~ContributedValue(r, all_series[i])

\* C24: every record of a run's aggregation, and every row in the wage table,
\* has the target year SURVEY_YEAR as its year.
C24_TargetYearOnly ==
    /\ \A r \in Runs :
          \A i \in DOMAIN run[r].master : run[r].master[i].survey_year = SURVEY_YEAR
    /\ \A row \in bls_wage_data : row.reference_year = SURVEY_YEAR

\* C25: a call is made only when every earlier call has been followed by its
\* pause; a pause only follows a call that is not the last (also when the
\* batch failed), one pause per call; when the loop ends after k calls there
\* have been k-1 pauses, and none is made afterwards.
C25_PauseBetweenCalls ==
    [][ \A r \in Runs :
          /\ Len(run'[r].requests) > Len(run[r].requests) =>
                /\ run[r].sleeps = Len(run[r].requests)
                /\ Len(run'[r].requests) = Len(run[r].requests) + 1
          /\ run'[r].sleeps # run[r].sleeps =>
                /\ run'[r].sleeps = run[r].sleeps + 1
                /\ Len(run'[r].requests) = Len(run[r].requests) + 1
                /\ run'[r].pc = "fetch"
          /\ (BatchFailedStep(r) /\ run'[r].pc = "fetch") =>
                run'[r].sleeps = run[r].sleeps + 1
          /\ (run[r].pc = "fetch" /\ run'[r].pc = "load") =>
                /\ Len(run'[r].requests) = NumBatchesOf(run[r])
                /\ run'[r].sleeps = NumBatchesOf(run[r]) - 1
      ]_vars

\* A run of three batches, the second of which failed, ended its loop after
\* three calls and two pauses, and exited.
C25_Witness ==
    \E r \in Runs :
        /\ run[r].pc = "exited"
        /\ run[r].batch_log = <<"data", "none", "data">>
        /\ Len(run[r].requests) = 3
        /\ run[r].sleeps = 2

\* C26: once the fetch loop has completed, the count of series with data
\* plus the length of the gap list is the number of series requested.
C26_WithDataPlusGapsIsTotal ==
    \A r \in Runs :
        run[r].pc = "load" =>
            run[r].series_with_data + Len(run[r].series_gaps) = run[r].total_series[1]

\* C27: the gap list starts empty and only grows in the iteration of a
\* batch: what is added are identifiers of the batch just requested, each
\* once, none of which was in the list before; all of the batch when it gave
\* no response, and otherwise the identifiers of the batch that are not
\* among the response's series with data.  So the list holds requested
\* identifiers only, each at most once.
C27_GapsRequestedOnce ==
    [][ \A r \in Runs :
          /\ run[r].pc = "connect" => run[r].series_gaps = <<>>
          /\ run'[r].series_gaps # run[r].series_gaps =>
                LET gaps  == run[r].series_gaps
                    batch == run'[r].requests[Len(run'[r].requests)]
                    added == SubSeq(run'[r].series_gaps, Len(gaps) + 1,
                                    Len(run'[r].series_gaps))
                IN  /\ Len(run'[r].requests) = Len(run[r].requests) + 1
                    /\ SubSeq(run'[r].series_gaps, 1, Len(gaps)) = gaps
                    /\ Range(added) \subseteq Range(batch)
                    /\ Cardinality(Range(added)) = Len(added)
                    /\ Range(added) \cap Range(gaps) = {}
                    /\ BatchFailedStep(r) => added = batch
          /\ (BatchFailedStep(r) /\ run'[r].series_gaps = run[r].series_gaps) =>
                run'[r].requests[Len(run'[r].requests)] = <<>>
      ]_vars

\* The first batch failed and the second returned data for some of its
\* identifiers only: the gap list holds identifiers of both batches.
C27_Witness ==
    \E r \in Runs :
        /\ run[r].pc = "load"
        /\ run[r].batch_log = <<"none", "data">>
        /\ Range(run[r].series_gaps) \cap Range(run[r].requests[2]) # {}
        /\ ~(Range(run[r].requests[2]) \subseteq Range(run[r].series_gaps))

\* Run r has exited after a fetch loop in which every call came back and no
\* series gave a present value.
ExitedWithoutValues(r) ==
    /\ run[r].pc = "exited"
    /\ run[r].requests # <<>> /\ Len(run[r].batch_log) = Len(run[r].requests)
    /\ run[r].contributed = {}

\* C28: a run in which no batch gave a present value has an empty
\* aggregation, has not called the loader and has inserted nothing; it ends
\* SUCCESS, with an audit row that has received = 0, written = 0 and no
\* discrepancy, and with exit code 0.
C28_NothingFetchedStillSucceeds ==
    \A r \in Runs :
        ExitedWithoutValues(r) =>
            /\ run[r].master = <<>>
            /\ run[r].i = 0 /\ run[r].tx = {} /\ run[r].written = 0
            /\ run[r].status = "SUCCESS"
            /\ run[r].audit # None
            /\ run[r].audit[1].status = "SUCCESS"
            /\ run[r].audit[1].records_received = 0
            /\ run[r].audit[1].records_written = 0
            /\ ~run[r].audit[1].discrepancy_flag
            /\ run[r].exit_code = Some(0)

\* ------------------------------------------------------------------------
\* Specification of the end-to-end scenario: one occupation code, an empty
\* wage table, data for 18 of the 30 series
\* ------------------------------------------------------------------------

\* Per MSA, how many of its six series have data: all the ways to spread 18
\* over the five MSAs in portions of 0, 3, 4 or 6.
PublishedCounts ==
    { c \in [DOMAIN MSA_CODES -> {0, 3, 4, 6}] : c[1] + c[2] + c[3] + c[4] + c[5] = 18 }

\* The API has a value for the published series; the others are suppressed
\* (their data point holds "-").
ScenarioWorlds ==
    { [base |-> Point(YearTarget, <<"1","0">>), alt |-> Point(YearTarget, <<"-">>),
       focus |-> "published", counts |-> c] : c \in PublishedCounts }

ScenarioInit ==
    /\ soc_code_reference = SubSeq(SocPool, 1, 1)
    /\ bls_wage_data = {}
    /\ pipeline_run_log = <<>>
    /\ api \in ScenarioWorlds
    /\ \E regkey \in BOOLEAN :
          run = [r \in Runs |-> IF r = 1 THEN FreshRun(regkey) ELSE IdleRun]

ScenarioSpec == ScenarioInit /\ [][Next]_vars

\* The MSAs for which the API has at least one value.
PublishedMsas == { m \in DOMAIN MSA_CODES : api.counts[m] > 0 }

\* The run of r went through the scenario: every call returned the API's
\* data, the load returned, the audit row was written, the process exited.
ScenarioDone(r) ==
    /\ run[r].pc = "exited" /\ run[r].status = "SUCCESS"
    /\ run[r].batch_log # <<>> /\ "none" \notin Range(run[r].batch_log)
    /\ run[r].audit # None

\* C21 as claimed: the aggregation holds 1 record, the loader writes 1 row, the
\* audit row has requested = 30, received = 1, written = 1, no discrepancy.
C21_OneRecord ==
    \A r \in Runs :
        ScenarioDone(r) =>
            /\ Len(run[r].master) = 1
            /\ Cardinality(bls_wage_data) = 1
            /\ run[r].audit[1].records_requested = 30
            /\ run[r].audit[1].records_received = 1
            /\ run[r].audit[1].records_written = 1
            /\ ~run[r].audit[1].discrepancy_flag
            /\ run[r].audit[1].status = "SUCCESS"

\* C21 (amended): the aggregation holds one record per MSA that has a value
\* (3 to 5 records), the loader writes one row for each, and the audit row has
\* requested = 30, received = written = that number, no discrepancy, SUCCESS.
C21_OneRecordPerMsa ==
    \A r \in Runs :
        ScenarioDone(r) =>
            LET n == Cardinality(PublishedMsas)
            IN  /\ n >= 3 /\ n <= 5
                /\ Len(run[r].master) = n
                /\ { run[r].master[i].msa_code : i \in DOMAIN run[r].master }
                      = { MSA_CODES[m].msa_code : m \in PublishedMsas }
                /\ Cardinality(bls_wage_data) = n
                /\ run[r].audit[1].records_requested = 30
                /\ run[r].audit[1].records_received = n
                /\ run[r].audit[1].records_written = n
                /\ ~run[r].audit[1].discrepancy_flag
                /\ run[r].audit[1].status = "SUCCESS"

\* The scenario was run with the 18 values in three MSAs.
C21_Witness ==
    \E r \in Runs :
        /\ ScenarioDone(r)
        /\ Cardinality(PublishedMsas) = 3
        /\ run[r].audit[1].records_written = 3
        /\ run[r].exit_code = Some(0)

\* ------------------------------------------------------------------------
\* Specification of the CSV ingestion: ingest_employees, then
\* ingest_job_grades on the same connection (csv_ingestion.py)
\* ------------------------------------------------------------------------

MaxRows == 3

\* pd.read_csv and the validation of the file: the file is missing, it fails
\* a check, or it is valid.
CsvFiles == {"missing", "invalid", "valid"}

\* The locals of one ingest function for a file of rows records; committed is
\* the set of records (by position) the job has committed to its table.
IngestJob(pipeline_type, file, rows) ==
    [pc                |-> "idle",
     pipeline_type     |-> pipeline_type,
     file              |-> file,
     rows              |-> rows,
     conn              |-> "open",
     txn               |-> "none",
     tx                |-> {},
     committed         |-> {},
     records_requested |-> 0,
     records_written   |-> 0,
     status            |-> None,
     audit             |-> None]

IngestInit ==
    /\ soc_code_reference = <<>>
    /\ bls_wage_data = {}
    /\ pipeline_run_log = <<>>
    /\ api = <<>>
    /\ \E f1, f2 \in CsvFiles : \E n1, n2 \in 1..MaxRows :
          run = [r \in Runs |->
                  IF r = 1
                  THEN [IngestJob("CSV_EMPLOYEES", f1, n1) EXCEPT !.pc = "read"]
                  ELSE IngestJob("CSV_GRADES", f2, n2)]

\* log_pipeline_run of csv_ingestion.py called by job rr, the server answering
\* o: the row is inserted and committed (audit), or the failure is swallowed
\* and rolled back; rollback() raises on a broken connection, and the
\* exception leaves the ingest function and main ("crashed").
CsvLog(rr, status, requested, received, written, msg, o) ==
    LET res == log_pipeline_run(rr, o)
        row == CsvAuditRow(rr.pipeline_type, status, requested, received, written, msg)
        r1  == [res.rr EXCEPT !.status = Some(status),
                              !.committed = IF res.committed THEN @ \cup rr.tx ELSE @,
                              !.audit = IF res.committed THEN Some(row) ELSE None]
    IN  IF res.raised
        THEN [r1 EXCEPT !.pc = "crashed"]
        ELSE [r1 EXCEPT !.pc = "returned"]

\* except Exception: conn.rollback(), then the FAILED audit row with the
\* count of the rows executed so far.
IngestFailed(rr, e, o) ==
    LET r1 == AfterExecError(rr, e)
    IN  IF r1.conn = "broken"
        THEN [r1 EXCEPT !.pc = "crashed", !.status = Some("FAILED")]
        ELSE CsvLog([r1 EXCEPT !.tx = {}, !.txn = "none"], "FAILED",
                    rr.records_requested, rr.records_requested, rr.records_written,
                    Some("DB insert failed"), o)

\* main calls ingest_job_grades when ingest_employees has returned, on the
\* same connection.
IngestStart(r) ==
    /\ r = 2 /\ run[r].pc = "idle" /\ run[1].pc = "returned"
    /\ Update(r, [run[r] EXCEPT !.pc = "read", !.conn = run[1].conn, !.txn = run[1].txn])
    /\ UNCHANGED <<soc_code_reference, bls_wage_data, pipeline_run_log, api>>

\* Read the file and validate it: a missing file logs FAILED (0, 0, 0), an
\* invalid one FAILED (n, n, 0); a valid one goes on to the upsert loop.
IngestRead(r) ==
    /\ run[r].pc = "read"
    /\ \E o \in DbOutcomes :
          LET rr == run[r]
              r1 == CASE rr.file = "missing" ->
                           CsvLog(rr, "FAILED", 0, 0, 0, Some("File not found"), o)
                      [] rr.file = "invalid" ->
                           CsvLog([rr EXCEPT !.records_requested = rr.rows], "FAILED",
                                  rr.rows, rr.rows, 0, Some("Validation failed"), o)
                      [] rr.file = "valid" ->
                           [rr EXCEPT !.records_requested = rr.rows, !.pc = "upsert"]
          IN  /\ Update(r, r1)
              /\ pipeline_run_log' =
                    IF r1.audit # None THEN Append(pipeline_run_log, r1.audit[1])
                    ELSE pipeline_run_log
    /\ UNCHANGED <<soc_code_reference, bls_wage_data, api>>

\* cur.execute(UPSERT_SQL, clean); records_written += 1 -- or the except block.
IngestUpsert(r) ==
    /\ run[r].pc = "upsert"
    /\ Cardinality(run[r].tx) < run[r].rows
    /\ \E o, o2 \in DbOutcomes :
          LET rr == run[r]
              e  == ExecOutcome(rr, o)
              r1 == IF e = "ok"
                    THEN [rr EXCEPT !.txn = "open",
                                    !.tx = @ \cup {Cardinality(@) + 1},
                                    !.records_written = @ + 1]
                    ELSE IngestFailed(rr, e, o2)
          IN  /\ Update(r, r1)
              /\ pipeline_run_log' =
                    IF r1.audit # None THEN Append(pipeline_run_log, r1.audit[1])
                    ELSE pipeline_run_log
    /\ UNCHANGED <<soc_code_reference, bls_wage_data, api>>

\* conn.commit() after the loop and the SUCCESS audit row -- or the except
\* block when the connection is lost.
IngestCommit(r) ==
    /\ run[r].pc = "upsert"
    /\ Cardinality(run[r].tx) = run[r].rows
    /\ \E o \in {"ok", "drop"} : \E o2 \in DbOutcomes :
          LET rr == run[r]
              r1 == IF o = "ok"
                    THEN CsvLog([rr EXCEPT !.committed = rr.tx, !.tx = {}, !.txn = "none"],
                                "SUCCESS", rr.records_requested, rr.records_requested,
                                rr.records_written, None, o2)
                    ELSE IngestFailed(rr, o, o2)
          IN  /\ Update(r, r1)
              /\ pipeline_run_log' =
                    IF r1.audit # None THEN Append(pipeline_run_log, r1.audit[1])
                    ELSE pipeline_run_log
    /\ UNCHANGED <<soc_code_reference, bls_wage_data, api>>

IngestNext ==
    \E r \in Runs :
        \/ IngestStart(r)
        \/ IngestRead(r)
        \/ IngestUpsert(r)
        \/ IngestCommit(r)

IngestSpec == IngestInit /\ [][IngestNext]_vars

\* C30: in every audit row a CSV job has written, records_written is the
\* number of rows the job committed to its table.
C30_WrittenIsCommitted ==
    \A r \in Runs :
        run[r].audit # None =>
            run[r].audit[1].records_written = Cardinality(run[r].committed)

====
